---- MODULE Spec2Model ----
(***************************************************************************)
(* Model of the asconnect build-submission pipeline:                       *)
(*   AppStoreConnectClient::get_token / send_request   (src/lib.rs)        *)
(*   AppStoreConnectClient::upload and its helpers     (src/altool.rs)     *)
(* Each thread is one caller of the shared client.  A network request is   *)
(* two steps: the request is sent (and is then in flight), and the         *)
(* transport delivers an outcome.                                          *)
(***************************************************************************)
EXTENDS Integers, Sequences, FiniteSets, TLC

\* ------------------------------------------------------------------ bounds
NumThreads == 2
MaxCalls == 2
MaxFileSize == 2
MaxOps == 2
MaxCands == 2
MaxTicks == 2

Threads == 1..NumThreads

\* ------------------------------------------------------- values and inputs
NoThread == 0
NoToken == 0
NoId == 0
NoStatus == 0

\* validity window handed to new_token
TokenValidity == 300

Min(a, b) == IF a < b THEN a ELSE b

\* The package file: n bytes, all different, so that a misplaced range shows.
FileOfSize(n) == [i \in 1..n |-> 16 + i]
Files == {FileOfSize(n) : n \in 0..MaxFileSize}

\* struct UploadOperation { offset, length, url }
UploadOperation(o, l, u) == [offset |-> o, length |-> l, url |-> u]
\* The lists the backend may answer for a file of the given size: any offsets
\* and lengths up to that size, a partition of the file or not.
Ranges(size) == (0..size) \X (0..size)
OpListsOfLen(n, size) ==
    {[k \in 1..n |-> UploadOperation(f[k][1], f[k][2], k)] : f \in [1..n -> Ranges(size)]}
OpListsFor(size) == UNION {OpListsOfLen(n, size) : n \in 0..MaxOps}
OpLists == [size \in 0..MaxFileSize |-> OpListsFor(size)]

\* struct Attribute { apple_id, type, software_type_enum }
Attribute(id, ty, ste) == [apple_id |-> id, type |-> ty, software_type_enum |-> ste]
Types == {"iOS App", "Mac App"}
SoftwareTypeEnums == {"Purple", "Firebird"}
Kinds == Types \X SoftwareTypeEnums
CandListsOfLen(n) ==
    {[k \in 1..n |-> Attribute(k, f[k][1], f[k][2])] : f \in [1..n -> Kinds]}
CandLists == UNION {CandListsOfLen(n) : n \in 0..MaxCands}

\* Info.plist of the package: the three keys extract_app_data reads.
PlistKeys == {"CFBundleIdentifier", "CFBundleVersion", "CFBundleShortVersionString"}
Absent == "<absent>"
NotAString == "<not a string>"
PlistValue(key) ==
    CASE key = "CFBundleIdentifier" -> "com.example.demo"
      [] key = "CFBundleVersion" -> "42"
      [] OTHER -> "2.1"
Plists == {p \in [PlistKeys -> {Absent, NotAString, "com.example.demo", "42", "2.1"}] :
              \A k \in PlistKeys : p[k] \in {Absent, NotAString, PlistValue(k)}}
\* A package: an archive that holds the Info.plist dictionary, or one whose
\* archive or property list cannot be read at all.
Package(readable, info) == [readable |-> readable, info |-> info]
Packages == {Package(TRUE, p) : p \in Plists}
                \cup {Package(FALSE, [k \in PlistKeys |-> Absent])}
NoAppData == [cf_bundle_identifier |-> "", cf_bundle_version |-> "",
              cf_bundle_short_version_string |-> ""]

\* What the transport delivers for one request: a connection-level failure, or
\* a response with a status; a response body that is to be decoded may be
\* undecodable.
TransportError == [transport |-> FALSE, status |-> NoStatus, decodes |-> FALSE]
HttpResponse(s, d) == [transport |-> TRUE, status |-> s, decodes |-> d]
NoOutcome == [transport |-> FALSE, status |-> NoStatus, decodes |-> TRUE]
\* how a step that sends no request ended
LocalOk == [transport |-> TRUE, status |-> NoStatus, decodes |-> TRUE]
LocalErr == [transport |-> TRUE, status |-> NoStatus, decodes |-> FALSE]
Statuses == {200, 404, 500}
Outcomes == {TransportError} \cup {HttpResponse(s, d) : s \in Statuses, d \in BOOLEAN}
\* ... and for a request whose response body is not decoded
PlainOutcomes == {TransportError} \cup {HttpResponse(s, TRUE) : s \in Statuses}

\* Key material.  A base64 text is a sequence of characters: 0..63 stand for the
\* alphabet, Pad for '=', and NotBase64 for a character outside the alphabet.
Pad == 64
NotBase64 == 65

\* base64::encode of up to three bytes: four characters
Base64Group(g) ==
    CASE Len(g) = 3 ->
            LET n == g[1] * 65536 + g[2] * 256 + g[3]
            IN  <<n \div 262144, (n \div 4096) % 64, (n \div 64) % 64, n % 64>>
      [] Len(g) = 2 ->
            LET n == (g[1] * 256 + g[2]) * 4
            IN  <<n \div 4096, (n \div 64) % 64, n % 64, Pad>>
      [] OTHER ->
            LET n == g[1] * 16
            IN  <<n \div 64, n % 64, Pad, Pad>>

RECURSIVE Base64Encode(_)
\* base64::encode(bytes)
Base64Encode(bytes) ==
    IF Len(bytes) = 0 THEN <<>>
    ELSE IF Len(bytes) <= 3 THEN Base64Group(bytes)
    ELSE Base64Group(SubSeq(bytes, 1, 3)) \o Base64Encode(SubSeq(bytes, 4, Len(bytes)))

\* base64::decode(text) is Ok: whole groups of four characters of the alphabet,
\* padded only at the end of the last group.  (Releases of the crate differ on
\* texts whose padding is left out; KeyTexts holds none.)
Base64Decodes(text) ==
    /\ Len(text) % 4 = 0
    /\ \A i \in DOMAIN text :
          \/ text[i] \in 0..63
          \/ /\ text[i] = Pad
             /\ i >= Len(text) - 1
             /\ text[Len(text)] = Pad

\* DER of a private key, as the bytes a PEM file holds
DerSamples == {<<48, 129>>, <<48, 129, 135, 2>>}
\* A PEM file given to from_ecdsa_pem_path.
PemFile(readable, parses, tag, contents) ==
    [readable |-> readable, parses |-> parses, tag |-> tag, contents |-> contents]
\* The files: one that cannot be read, one that is no PEM, one tagged otherwise,
\* and the well-formed ones.
PemFiles == {PemFile(FALSE, FALSE, "PRIVATE KEY", <<48, 129>>),
             PemFile(TRUE, FALSE, "PRIVATE KEY", <<48, 129>>),
             PemFile(TRUE, TRUE, "EC PRIVATE KEY", <<48, 129>>)}
                \cup {PemFile(TRUE, TRUE, "PRIVATE KEY", c) : c \in DerSamples}
NoPem == PemFile(FALSE, FALSE, "", <<>>)
\* struct UnifiedApiKey { issuer_id, key_id, private_key }: the private_key text
\* and where it was loaded from
UnifiedApiKey(private_key, origin) ==
    [present |-> TRUE, private_key |-> private_key, origin |-> origin]
NoKey == [present |-> FALSE, private_key |-> <<>>, origin |-> ""]
\* The private_key texts a JSON key file may hold: encoded keys, a text that is
\* one character too long, one with a character outside the alphabet, one padded
\* in front.
KeyTexts == {Base64Encode(c) : c \in DerSamples}
               \cup {<<12, 2, 0, 1, 5>>, <<12, NotBase64, 0, 0>>, <<Pad, 12, 2, 0>>}

\* ------------------------------------------------------------------- state
VARIABLES
    pc,          \* where each thread is
    caller,      \* the function that called get_token
    calls,       \* calls of a client method each thread has started
    result,      \* what the thread's last call returned: "none", "ok", or the error
    cache,       \* AppStoreConnectClient.token: the cached token, NoToken when None
    lock,        \* holder of the Mutex around the cache
    signCount,   \* successful new_token calls so far
    token,       \* the local `token` of the function a thread is in
    app_data,    \* upload: result of extract_app_data
    apple_id,    \* upload: the selected candidate's AppleID
    attributes,  \* upload: the candidate list returned by the lookup
    build_id,    \* upload: id returned by create_build
    file,        \* create_upload: the bytes of the opened file
    delivery_id, \* create_upload: resp.data.id
    operations,  \* create_upload: resp.data.attributes.upload_operations
    next_op,     \* create_upload: position of the for loop
    log,         \* per thread: the requests sent and outcomes received, in order
    uploaded,    \* backend: delivery files marked uploaded
    now,         \* the time, in seconds
    expiry,      \* when the cached token's validity window ends
    client,      \* the AppStoreConnectClient: "none", "built", or "failed" to build
    api_key,     \* the UnifiedApiKey loaded
    pem          \* the PEM file from_ecdsa_pem_path was given

vars == <<pc, caller, calls, result, cache, lock, signCount, token, app_data, apple_id,
          attributes, build_id, file, delivery_id, operations, next_op, log, uploaded,
          now, expiry, client, api_key, pem>>

tokenVars == <<cache, lock, signCount>>
keyVars == <<client, api_key, pem>>
uploadVars == <<app_data, apple_id, attributes, build_id, file, delivery_id,
                operations, next_op>>

\* ---------------------------------------------------------------- the log
Event(ev, step, tok, ref, body, out) ==
    [ev |-> ev, step |-> step, token |-> tok, ref |-> ref, body |-> body, out |-> out,
     headers |-> {}]

\* The headers the builder of an authenticated request sets: bearer_auth, Accept
\* and Content-Type.
JsonHeaders == {"Authorization", "Accept", "Content-Type"}
\* (variant) the lookup also names a session and carries a digest
LookupHeadersWithSession == JsonHeaders \cup {"x-session-id", "x-session-digest"}

\* The headers of the lookupSoftwareForBundleId request.
LookupHeaders == JsonHeaders

\* The headers of the request of a step; client.put(url).body(buf) sets none.
RequestHeaders(step) ==
    CASE step = "lookup" -> LookupHeaders
      [] step = "put" -> {}
      [] OTHER -> JsonHeaders

\* a request handed to client.execute
Request(step, tok, ref, body) ==
    [Event("req", step, tok, ref, body, NoOutcome) EXCEPT !.headers = RequestHeaders(step)]
\* what the transport delivered for the request in flight
Response(step, out) == Event("resp", step, NoToken, NoId, <<>>, out)
\* a step without a request: it went well or it did not
Local(step, tok, ok) ==
    Event("local", step, tok, NoId, <<>>, IF ok THEN LocalOk ELSE LocalErr)

\* extract_app_data was given the package and went well or did not
Extracted(pkg, ok) ==
    Event("local", "extract", NoToken, NoId, <<pkg>>, IF ok THEN LocalOk ELSE LocalErr)

\* get_token returned the token, at the time given
TokenReturned(tok, at) == Event("local", "get_token", tok, at, <<>>, LocalOk)

Logged(t, e) == log' = [log EXCEPT ![t] = Append(@, e)]

\* ------------------------------------------------------------------- Init
Idle ==
    /\ pc = [t \in Threads |-> "idle"]
    /\ caller = [t \in Threads |-> "none"]
    /\ calls = [t \in Threads |-> 0]
    /\ result = [t \in Threads |-> "none"]
    /\ cache = NoToken
    /\ lock = NoThread
    /\ signCount = 0
    /\ token = [t \in Threads |-> NoToken]
    /\ app_data = [t \in Threads |-> NoAppData]
    /\ apple_id = [t \in Threads |-> NoId]
    /\ attributes = [t \in Threads |-> <<>>]
    /\ build_id = [t \in Threads |-> NoId]
    /\ file = [t \in Threads |-> <<>>]
    /\ delivery_id = [t \in Threads |-> NoId]
    /\ operations = [t \in Threads |-> <<>>]
    /\ next_op = [t \in Threads |-> 0]
    /\ log = [t \in Threads |-> <<>>]
    /\ uploaded = {}
    /\ now = 0
    /\ expiry = 0

\* A client built from a well-formed key, nothing called on it yet.
Init ==
    /\ Idle
    /\ client = "built"
    /\ api_key = UnifiedApiKey(Base64Encode(<<48, 129>>), "json")
    /\ pem = NoPem

\* (variant) a PUT that failed is sent once more before the call gives up
ReturnsAfterRetry(t, r) ==
    /\ pc' = [pc EXCEPT ![t] =
                IF pc[t] = "put_wait"
                   /\ Cardinality({i \in DOMAIN log[t] :
                                      log[t][i].ev = "req" /\ log[t][i].step = "put"
                                      /\ log[t][i].ref = operations[t][next_op[t]].url}) < 2
                THEN "loop" ELSE "idle"]
    /\ result' = [result EXCEPT ![t] = r]
    /\ caller' = [caller EXCEPT ![t] = "none"]

\* A call returns to its caller: the thread is idle again.
Returns(t, r) ==
    /\ pc' = [pc EXCEPT ![t] = "idle"]
    /\ result' = [result EXCEPT ![t] = r]
    /\ caller' = [caller EXCEPT ![t] = "none"]

\* ------------------------------------------------------------- get_token
\* (variant) create_build goes on as create_upload does
AfterTokenSwapped(site) ==
    CASE site = "lookup_software_for_bundle_id" -> "lookup_send"
      [] site = "create_build" -> "delivery_send"
      [] site = "create_upload" -> "delivery_send"
      [] OTHER -> "idle"

\* Where a caller of get_token goes on once it has the token.
AfterToken(site) ==
    CASE site = "lookup_software_for_bundle_id" -> "lookup_send"
      [] site = "create_build" -> "build_send"
      [] site = "create_upload" -> "delivery_send"
      [] OTHER -> "idle"

\* A thread calls client.get_token() itself.
CallGetToken(t) ==
    /\ client = "built"
    /\ pc[t] = "idle"
    /\ calls[t] < MaxCalls
    /\ calls' = [calls EXCEPT ![t] = @ + 1]
    /\ pc' = [pc EXCEPT ![t] = "gt_lock"]
    /\ caller' = [caller EXCEPT ![t] = "direct"]
    /\ result' = [result EXCEPT ![t] = "none"]
    /\ UNCHANGED <<tokenVars, token, uploadVars, log, uploaded>>
    /\ UNCHANGED <<now, expiry, keyVars>>

\* (variant) a lock that excludes nobody
LockNeverHeld == TRUE

\* self.token.lock() can be taken when no thread holds the mutex.
LockFree == lock = NoThread

\* (variant) the call locks the mutex once more while it holds the guard
AfterLockTwice == "gt_lock"

\* The mutex is locked once in a call: what follows is the is_none() test.
AfterLock == "gt_check"

\* let mut token = self.token.lock().unwrap();
GetTokenLock(t) ==
    /\ pc[t] = "gt_lock"
    /\ LockFree
    /\ lock' = t
    /\ pc' = [pc EXCEPT ![t] = AfterLock]
    /\ UNCHANGED <<caller, calls, result, cache, signCount, token, uploadVars, log,
                   uploaded>>
    /\ UNCHANGED <<now, expiry, keyVars>>

\* (variant) the cache is not looked at
IsNoneAlways == TRUE

\* (variant) a token whose validity window has ended counts as none
IsNoneOrExpired == cache = NoToken \/ now >= expiry

\* token.is_none()
IsNone == cache = NoToken

\* if token.is_none() { ... }
GetTokenCheck(t) ==
    /\ pc[t] = "gt_check"
    /\ pc' = [pc EXCEPT ![t] = IF IsNone THEN "gt_sign" ELSE "gt_return"]
    /\ UNCHANGED <<caller, calls, result, tokenVars, token, uploadVars, log, uploaded>>
    /\ UNCHANGED <<now, expiry, keyVars>>

\* The value new_token signs: every signature is a new value.
NewToken == signCount + 1

\* (variant) the guard is not dropped when get_token returns the signing error
GuardKeptOnError(t) == t

\* new_token(300)? returns the error from get_token: the guard, a local, is
\* dropped without a panic, so the mutex is free and not poisoned.
GuardDroppedOnError(t) == NoThread

\* token.replace(self.connect_token.new_token(300)?): signing succeeds and the
\* cache is filled, or it fails and get_token returns the error, dropping the guard.
GetTokenSign(t, signed) ==
    /\ pc[t] = "gt_sign"
    /\ IF signed
       THEN /\ cache' = NewToken
            /\ expiry' = now + TokenValidity
            /\ signCount' = signCount + 1
            /\ pc' = [pc EXCEPT ![t] = "gt_return"]
            /\ UNCHANGED <<lock, caller, result, log>>
       ELSE /\ lock' = GuardDroppedOnError(t)
            /\ Logged(t, Local("get_token", NoToken, FALSE))
            /\ Returns(t, "signing failed")
            /\ UNCHANGED <<cache, expiry, signCount>>
    /\ UNCHANGED <<calls, token, uploadVars, uploaded>>
    /\ UNCHANGED <<now, keyVars>>

\* Ok(token.as_ref().unwrap().clone()), and the guard is dropped.
\* (variant) the guard outlives get_token: the caller keeps the lock
GuardKept(t) == t

\* The MutexGuard is a local of get_token: it is dropped when get_token returns.
GuardDropped(t) == NoThread

GetTokenReturn(t) ==
    /\ pc[t] = "gt_return"
    /\ token' = [token EXCEPT ![t] = cache]
    /\ lock' = GuardDropped(t)
    /\ Logged(t, TokenReturned(cache, now))
    /\ IF caller[t] = "direct"
       THEN Returns(t, "ok")
       ELSE /\ pc' = [pc EXCEPT ![t] = AfterToken(caller[t])]
            /\ UNCHANGED <<caller, result>>
    /\ UNCHANGED <<calls, cache, signCount, uploadVars, uploaded>>
    /\ UNCHANGED <<now, expiry, keyVars>>

GetToken(t) ==
    \/ GetTokenLock(t)
    \/ GetTokenCheck(t)
    \/ \E signed \in BOOLEAN : GetTokenSign(t, signed)
    \/ GetTokenReturn(t)

\* ---------------------------------------------------------- send_request
\* (variant) a redirection counts as a success too
IsSuccessBelow400(s) == 200 <= s /\ s <= 399

\* response.status().is_success()
IsSuccess(s) == 200 <= s /\ s <= 299

\* (variant) the status is not looked at
SendRequestOkAnyStatus(out) == out.transport

\* send_request returns Ok(response) when client.execute delivered a response
\* and its status is a success; otherwise it returns an error.
SendRequestOk(out) == out.transport /\ IsSuccess(out.status)

\* The error send_request returns.
SendRequestError(out) ==
    IF out.transport THEN "app store connect error" ELSE "transport error"

\* send_request(req)?.json()?
DecodedOk(out) == SendRequestOk(out) /\ out.decodes
DecodedError(out) ==
    IF SendRequestOk(out) THEN "decode error" ELSE SendRequestError(out)

\* An id the backend assigns: one per call of each thread.
BackendId(t) == (calls[t] - 1) * NumThreads + t

\* ------------------------------------------------------ extract_app_data
\* (variant) any value under the key will do
GetStringOkAnyValue(pkg, key) == pkg.info[key] # Absent

\* get_string(dict, key): the key is there and its value is a string.
GetStringOk(pkg, key) == pkg.info[key] # Absent /\ pkg.info[key] # NotAString

ExtractOk(pkg) ==
    /\ pkg.readable
    /\ GetStringOk(pkg, "CFBundleIdentifier")
    /\ GetStringOk(pkg, "CFBundleVersion")
    /\ GetStringOk(pkg, "CFBundleShortVersionString")

ExtractAppData(pkg) ==
    [cf_bundle_identifier |-> pkg.info["CFBundleIdentifier"],
     cf_bundle_version |-> pkg.info["CFBundleVersion"],
     cf_bundle_short_version_string |-> pkg.info["CFBundleShortVersionString"]]

\* ------------------------------------------------------------------ upload
\* A call of a function that needs the token: it calls get_token first.
CallsGetToken(t, site) ==
    /\ pc' = [pc EXCEPT ![t] = "gt_lock"]
    /\ caller' = [caller EXCEPT ![t] = site]

\* A thread calls client.upload(path): app_data = extract_app_data(path)?, then
\* lookup_software_for_bundle_id is entered.
Upload(t, pkg) ==
    /\ client = "built"
    /\ pc[t] = "idle"
    /\ calls[t] = 0
    /\ calls' = [calls EXCEPT ![t] = @ + 1]
    /\ token' = [token EXCEPT ![t] = NoToken]
    /\ apple_id' = [apple_id EXCEPT ![t] = NoId]
    /\ attributes' = [attributes EXCEPT ![t] = <<>>]
    /\ build_id' = [build_id EXCEPT ![t] = NoId]
    /\ file' = [file EXCEPT ![t] = <<>>]
    /\ delivery_id' = [delivery_id EXCEPT ![t] = NoId]
    /\ operations' = [operations EXCEPT ![t] = <<>>]
    /\ next_op' = [next_op EXCEPT ![t] = 0]
    /\ log' = [log EXCEPT ![t] = <<Extracted(pkg, ExtractOk(pkg))>>]
    /\ IF ExtractOk(pkg)
       THEN /\ app_data' = [app_data EXCEPT ![t] = ExtractAppData(pkg)]
            /\ CallsGetToken(t, "lookup_software_for_bundle_id")
            /\ result' = [result EXCEPT ![t] = "none"]
       ELSE /\ app_data' = [app_data EXCEPT ![t] = NoAppData]
            /\ Returns(t, "invalid Info.plist")
    /\ UNCHANGED <<tokenVars, uploaded>>
    /\ UNCHANGED <<now, expiry, keyVars>>

\* (variant) a session is negotiated before the lookup
LookupRequestsWithSession(t) ==
    <<Request("authenticateForSession", token[t], NoId, <<>>),
      Request("lookup", token[t], NoId, <<app_data[t].cf_bundle_identifier>>)>>

\* The requests lookup_software_for_bundle_id sends: the lookup and no other.
LookupRequests(t) ==
    <<Request("lookup", token[t], NoId, <<app_data[t].cf_bundle_identifier>>)>>

\* lookup_software_for_bundle_id: the POST is built with the token and sent.
LookupSend(t) ==
    /\ pc[t] = "lookup_send"
    /\ log' = [log EXCEPT ![t] = @ \o LookupRequests(t)]
    /\ pc' = [pc EXCEPT ![t] = "lookup_wait"]
    /\ UNCHANGED <<caller, calls, result, tokenVars, token, uploadVars, uploaded>>
    /\ UNCHANGED <<now, expiry, keyVars>>

\* let resp = self.send_request(req)?.json()?; Ok(resp.result.attributes)
LookupRecv(t, out, cands) ==
    /\ pc[t] = "lookup_wait"
    /\ Logged(t, Response("lookup", out))
    /\ IF DecodedOk(out)
       THEN /\ attributes' = [attributes EXCEPT ![t] = cands]
            /\ pc' = [pc EXCEPT ![t] = "find"]
            /\ UNCHANGED <<caller, result>>
       ELSE /\ Returns(t, DecodedError(out))
            /\ UNCHANGED attributes
    /\ UNCHANGED <<calls, tokenVars, token, app_data, apple_id, build_id, file,
                   delivery_id, operations, next_op, uploaded>>
    /\ UNCHANGED <<now, expiry, keyVars>>

\* (variant) the software type is not compared
MatchesTypeOnly(attr) == attr.type = "iOS App"

\* |attr| attr.type == "iOS App" && attr.software_type_enum == "Purple"
Matches(attr) == attr.type = "iOS App" /\ attr.software_type_enum = "Purple"

\* (variant) without a match the first candidate is taken
FindOrFirst(attrs) ==
    IF \E k \in 1..Len(attrs) : attrs[k].type = "iOS App" /\ attrs[k].software_type_enum = "Purple"
    THEN CHOOSE k \in 1..Len(attrs) :
            /\ attrs[k].type = "iOS App" /\ attrs[k].software_type_enum = "Purple"
            /\ \A j \in 1..(k - 1) :
                  ~(attrs[j].type = "iOS App" /\ attrs[j].software_type_enum = "Purple")
    ELSE IF Len(attrs) > 0 THEN 1 ELSE 0

\* attributes.into_iter().find(..): position of the candidate found, 0 if none.
Find(attrs) ==
    IF \E k \in 1..Len(attrs) : Matches(attrs[k])
    THEN CHOOSE k \in 1..Len(attrs) :
            Matches(attrs[k]) /\ \A j \in 1..(k - 1) : ~Matches(attrs[j])
    ELSE 0

\* upload: the candidate is selected (or "failed to find app"), and create_build
\* is entered with its apple_id.
FindApp(t) ==
    /\ pc[t] = "find"
    /\ attributes' = [attributes EXCEPT ![t] = <<>>]
    /\ Logged(t, Local("find", NoToken, Find(attributes[t]) # 0))
    /\ IF Find(attributes[t]) # 0
       THEN /\ apple_id' = [apple_id EXCEPT ![t] = attributes[t][Find(attributes[t])].apple_id]
            /\ CallsGetToken(t, "create_build")
            /\ UNCHANGED result
       ELSE /\ Returns(t, "failed to find app")
            /\ UNCHANGED apple_id
    /\ UNCHANGED <<calls, tokenVars, token, app_data, build_id, file, delivery_id,
                   operations, next_op, uploaded>>
    /\ UNCHANGED <<now, expiry, keyVars>>

\* create_build: the POST to /builds is built with the token and sent.
BuildSend(t) ==
    /\ pc[t] = "build_send"
    /\ Logged(t, Request("build", token[t], apple_id[t],
                         <<app_data[t].cf_bundle_version,
                           app_data[t].cf_bundle_short_version_string>>))
    /\ pc' = [pc EXCEPT ![t] = "build_wait"]
    /\ UNCHANGED <<caller, calls, result, tokenVars, token, uploadVars, uploaded>>
    /\ UNCHANGED <<now, expiry, keyVars>>

\* let resp = self.send_request(req)?.json()?; Ok(resp.data.id); upload then
\* enters create_upload with the build id.
BuildRecv(t, out) ==
    /\ pc[t] = "build_wait"
    /\ Logged(t, Response("build", out))
    /\ IF DecodedOk(out)
       THEN /\ build_id' = [build_id EXCEPT ![t] = BackendId(t)]
            /\ pc' = [pc EXCEPT ![t] = "read_file"]
            /\ UNCHANGED <<caller, result>>
       ELSE /\ Returns(t, DecodedError(out))
            /\ UNCHANGED build_id
    /\ UNCHANGED <<calls, tokenVars, token, app_data, apple_id, attributes, file,
                   delivery_id, operations, next_op, uploaded>>
    /\ UNCHANGED <<now, expiry, keyVars>>

\* create_upload: the file is opened and read whole (for its size and checksum),
\* then the token is asked for.
ReadFile(t, f, io_ok) ==
    /\ pc[t] = "read_file"
    /\ Logged(t, Local("read_file", NoToken, io_ok))
    /\ IF io_ok
       THEN /\ file' = [file EXCEPT ![t] = f]
            /\ CallsGetToken(t, "create_upload")
            /\ UNCHANGED result
       ELSE /\ Returns(t, "io error")
            /\ UNCHANGED file
    /\ UNCHANGED <<calls, tokenVars, token, app_data, apple_id, attributes, build_id,
                   delivery_id, operations, next_op, uploaded>>
    /\ UNCHANGED <<now, expiry, keyVars>>

\* md5::compute(&data), as a value that names the data it was computed from
Checksum(data) == <<"md5", data>>

\* create_upload: the POST to /buildDeliveryFiles is built and sent.
\* (variant) the build created last on the client, whoever created it
LatestBuildId(t) == CHOOSE b \in {build_id[u] : u \in Threads} :
                        \A u \in Threads : build_id[u] <= b

\* build_id is a parameter of create_upload, passed by upload from its own
\* create_build call.
BuildIdOf(t) == build_id[t]

DeliverySend(t) ==
    /\ pc[t] = "delivery_send"
    /\ Logged(t, Request("delivery", token[t], BuildIdOf(t),
                         <<Len(file[t]), Checksum(file[t])>>))
    /\ pc' = [pc EXCEPT ![t] = "delivery_wait"]
    /\ UNCHANGED <<caller, calls, result, tokenVars, token, uploadVars, uploaded>>
    /\ UNCHANGED <<now, expiry, keyVars>>

\* let resp = self.send_request(req)?.json()?; id and operations are taken
\* from it and the for loop starts.
\* (variant) a response without upload operations is turned down
PlanAcceptedIfNotEmpty(out, ops) == DecodedOk(out) /\ Len(ops) > 0

\* upload_operations: Vec<UploadOperation> decodes from any list, the empty one
\* too, and create_upload does not look at its length.
PlanAccepted(out, ops) == DecodedOk(out)

DeliveryRecv(t, out, ops) ==
    /\ pc[t] = "delivery_wait"
    /\ Logged(t, Response("delivery", out))
    /\ IF PlanAccepted(out, ops)
       THEN /\ delivery_id' = [delivery_id EXCEPT ![t] = BackendId(t)]
            /\ operations' = [operations EXCEPT ![t] = ops]
            /\ next_op' = [next_op EXCEPT ![t] = 1]
            /\ pc' = [pc EXCEPT ![t] = "loop"]
            /\ UNCHANGED <<caller, result>>
       ELSE /\ Returns(t, DecodedError(out))
            /\ UNCHANGED <<delivery_id, operations, next_op>>
    /\ UNCHANGED <<calls, tokenVars, token, app_data, apple_id, attributes, build_id,
                   file, uploaded>>
    /\ UNCHANGED <<now, expiry, keyVars>>

\* (variant) the read starts where the file begins, not at offset
ReadRangeNoSeek(f, offset, length) == SubSeq(f, 1, Min(length, Len(f)))

\* f.seek(SeekFrom::Start(offset)); (&mut f).take(length).read_to_end(&mut buf):
\* the bytes from offset on, at most length of them, up to the end of the file.
ReadRange(f, offset, length) == SubSeq(f, offset + 1, Min(offset + length, Len(f)))

\* (variant) the loop stops one operation early
MoreOperationsButLast(t) == next_op[t] < Len(operations[t])

\* The loop has operations left.
MoreOperations(t) == next_op[t] <= Len(operations[t])

\* (variant) the operations are taken from the end of the list
CurrentOperationFromEnd(t) == operations[t][Len(operations[t]) + 1 - next_op[t]]

\* for operation in operations: the operation of this turn, in list order
CurrentOperation(t) == operations[t][next_op[t]]

\* One turn of the for loop: the range is read and the PUT to operation.url
\* (which carries no token) is sent.
\* (variant) the chunk is sent with the token of the delivery request
PutBearerToken(t) == token[t]

\* self.client.put(&operation.url).body(buf): no bearer_auth
PutBearer(t) == NoToken

PutSend(t, io_ok) ==
    /\ pc[t] = "loop"
    /\ MoreOperations(t)
    /\ IF io_ok
       THEN /\ Logged(t, Request("put", PutBearer(t), CurrentOperation(t).url,
                                 ReadRange(file[t], CurrentOperation(t).offset,
                                           CurrentOperation(t).length)))
            /\ pc' = [pc EXCEPT ![t] = "put_wait"]
            /\ UNCHANGED <<caller, result>>
       ELSE /\ Logged(t, Local("read_range", NoToken, FALSE))
            /\ Returns(t, "io error")
    /\ UNCHANGED <<calls, tokenVars, token, uploadVars, uploaded>>
    /\ UNCHANGED <<now, expiry, keyVars>>

\* self.send_request(req)?; and the loop goes on with the next operation.
PutRecv(t, out) ==
    /\ pc[t] = "put_wait"
    /\ Logged(t, Response("put", out))
    /\ IF SendRequestOk(out)
       THEN /\ next_op' = [next_op EXCEPT ![t] = @ + 1]
            /\ pc' = [pc EXCEPT ![t] = "loop"]
            /\ UNCHANGED <<caller, result>>
       ELSE /\ Returns(t, SendRequestError(out))
            /\ UNCHANGED next_op
    /\ UNCHANGED <<calls, tokenVars, token, app_data, apple_id, attributes, build_id,
                   file, delivery_id, operations, uploaded>>
    /\ UNCHANGED <<now, expiry, keyVars>>

\* After the loop: the PATCH with "uploaded": true and the delivery file's id
\* is built with the token of the creation request and sent.
FinalizeSend(t) ==
    /\ pc[t] = "loop"
    /\ ~MoreOperations(t)
    /\ Logged(t, Request("finalize", token[t], delivery_id[t], <<>>))
    /\ pc' = [pc EXCEPT ![t] = "finalize_wait"]
    /\ UNCHANGED <<caller, calls, result, tokenVars, token, uploadVars, uploaded>>
    /\ UNCHANGED <<now, expiry, keyVars>>

\* self.send_request(req)?; Ok(()): create_upload and upload return.  The
\* backend marks the delivery file uploaded when it answers with a success.
FinalizeRecv(t, out) ==
    /\ pc[t] = "finalize_wait"
    /\ Logged(t, Response("finalize", out))
    /\ IF SendRequestOk(out)
       THEN /\ uploaded' = uploaded \cup {delivery_id[t]}
            /\ Returns(t, "ok")
       ELSE /\ Returns(t, SendRequestError(out))
            /\ UNCHANGED uploaded
    /\ UNCHANGED <<calls, tokenVars, token, uploadVars>>
    /\ UNCHANGED <<now, expiry, keyVars>>

\* ---------------------------------------------------------- specifications
\* One submission, with every input the bounds allow.
Next ==
    \E t \in {1} :
        \/ pc[t] = "idle" /\ \E pkg \in Packages : Upload(t, pkg)
        \/ GetToken(t)
        \/ LookupSend(t)
        \/ pc[t] = "lookup_wait" /\ \E out \in Outcomes, cands \in CandLists :
                                        LookupRecv(t, out, cands)
        \/ FindApp(t)
        \/ BuildSend(t)
        \/ \E out \in Outcomes : BuildRecv(t, out)
        \/ \E f \in Files, io_ok \in BOOLEAN : ReadFile(t, f, io_ok)
        \/ DeliverySend(t)
        \/ pc[t] = "delivery_wait" /\ \E out \in Outcomes, ops \in OpLists[Len(file[t])] :
                                          DeliveryRecv(t, out, ops)
        \/ \E io_ok \in BOOLEAN : PutSend(t, io_ok)
        \/ \E out \in PlainOutcomes : PutRecv(t, out)
        \/ FinalizeSend(t)
        \/ \E out \in PlainOutcomes : FinalizeRecv(t, out)
Spec == Init /\ [][Next]_vars

\* Threads that call get_token on one client, again and again.
NextToken == \E t \in Threads : CallGetToken(t) \/ GetToken(t)
SpecToken == Init /\ [][NextToken]_vars

\* ... under fair scheduling: a thread inside get_token that can take its next
\* step takes it, and a thread waiting for the mutex gets it if it is free
\* again and again.  Nothing makes a thread call get_token.
FairGetToken(t) ==
    /\ SF_vars(GetTokenLock(t))
    /\ WF_vars(GetTokenCheck(t))
    /\ WF_vars(\E signed \in BOOLEAN : GetTokenSign(t, signed))
    /\ WF_vars(GetTokenReturn(t))
SpecTokenFair == Init /\ [][NextToken]_vars /\ \A t \in Threads : FairGetToken(t)

\* Time passes: one validity window at a time.
Tick ==
    /\ now < MaxTicks * TokenValidity
    /\ now' = now + TokenValidity
    /\ UNCHANGED <<pc, caller, calls, result, tokenVars, token, uploadVars, log, uploaded,
                   expiry, keyVars>>

\* Threads that call get_token while time passes.
NextClock ==
    \/ \E t \in Threads : CallGetToken(t) \/ GetToken(t)
    \/ Tick
SpecClock == Init /\ [][NextClock]_vars

\* Submissions of several threads on one client at a time, each with one
\* package, one candidate list and a one-operation plan; any request may fail.
ConcPackages == {Package(TRUE, [k \in PlistKeys |-> PlistValue(k)])}
ConcCandLists == {<<Attribute(1, "iOS App", "Purple")>>}
ConcOutcomes == {HttpResponse(200, TRUE), HttpResponse(500, TRUE)}
ConcFiles == {FileOfSize(1)}
ConcOpLists == {<<UploadOperation(0, 1, 1)>>}
NextConc ==
    \E t \in Threads :
        \/ \E pkg \in ConcPackages : Upload(t, pkg)
        \/ GetToken(t)
        \/ LookupSend(t)
        \/ \E out \in ConcOutcomes, cands \in ConcCandLists : LookupRecv(t, out, cands)
        \/ FindApp(t)
        \/ BuildSend(t)
        \/ \E out \in ConcOutcomes : BuildRecv(t, out)
        \/ \E f \in ConcFiles : ReadFile(t, f, TRUE)
        \/ DeliverySend(t)
        \/ \E out \in ConcOutcomes, ops \in ConcOpLists : DeliveryRecv(t, out, ops)
        \/ PutSend(t, TRUE)
        \/ \E out \in ConcOutcomes : PutRecv(t, out)
        \/ FinalizeSend(t)
        \/ \E out \in ConcOutcomes : FinalizeRecv(t, out)
SpecConc == Init /\ [][NextConc]_vars

\* One submission whose requests are answered with statuses on both sides of
\* the bounds of the success class, or not at all.
WideStatuses == {199, 200, 204, 299, 300, 304, 404, 500}
WideOutcomes == {TransportError} \cup {HttpResponse(s, TRUE) : s \in WideStatuses}
NextStatus ==
    \E t \in {1} :
        \/ \E pkg \in ConcPackages : Upload(t, pkg)
        \/ GetToken(t)
        \/ LookupSend(t)
        \/ \E out \in WideOutcomes, cands \in ConcCandLists : LookupRecv(t, out, cands)
        \/ FindApp(t)
        \/ BuildSend(t)
        \/ \E out \in WideOutcomes : BuildRecv(t, out)
        \/ \E f \in ConcFiles : ReadFile(t, f, TRUE)
        \/ DeliverySend(t)
        \/ \E out \in WideOutcomes, ops \in ConcOpLists : DeliveryRecv(t, out, ops)
        \/ PutSend(t, TRUE)
        \/ \E out \in WideOutcomes : PutRecv(t, out)
        \/ FinalizeSend(t)
        \/ \E out \in WideOutcomes : FinalizeRecv(t, out)
SpecStatus == Init /\ [][NextStatus]_vars

\* ------------------------------------------------------- building a client
\* (variant) the tag of the PEM file is not looked at
TagOkAny(tag) == TRUE

\* parsed.tag != "PRIVATE KEY" bails
TagOk(tag) == tag = "PRIVATE KEY"

\* UnifiedApiKey::from_ecdsa_pem_path(issuer_id, key_id, path): read the file,
\* parse the PEM, check its tag, keep the contents base64 encoded.
FromEcdsaPemPath(f) ==
    /\ client = "none"
    /\ pem = NoPem
    /\ ~api_key.present
    /\ pem' = f
    /\ api_key' = IF f.readable /\ f.parses /\ TagOk(f.tag)
                  THEN UnifiedApiKey(Base64Encode(f.contents), "pem")
                  ELSE NoKey
    /\ UNCHANGED <<pc, caller, calls, result, tokenVars, token, uploadVars, log, uploaded,
                   now, expiry, client>>

\* AppStoreConnectClient::from_json_path(path): the key is read from the JSON
\* file (the one the loaded key was written to, if one was loaded), its
\* private_key is base64 decoded, the encoder is made from the DER and the
\* client from the encoder; each step may fail and fails the whole.
FromJsonPath(text, json_ok, built_ok) ==
    /\ client = "none"
    /\ api_key.present => text = api_key.private_key
    /\ api_key' = IF json_ok /\ ~api_key.present
                  THEN UnifiedApiKey(text, "json")
                  ELSE api_key
    /\ client' = IF json_ok /\ Base64Decodes(text) /\ built_ok
                 THEN "built"
                 ELSE "failed"
    /\ UNCHANGED <<pc, caller, calls, result, tokenVars, token, uploadVars, log, uploaded,
                   now, expiry, pem>>

\* No client yet and no key loaded.
InitKey ==
    /\ Idle
    /\ client = "none"
    /\ api_key = NoKey
    /\ pem = NoPem

\* A client is built from key material and then used: packages are uploaded
\* with it.
NextKey ==
    \/ \E f \in PemFiles : FromEcdsaPemPath(f)
    \/ \E text \in KeyTexts, json_ok \in BOOLEAN, built_ok \in BOOLEAN :
            FromJsonPath(text, json_ok, built_ok)
    \/ NextConc
SpecKey == InitKey /\ [][NextKey]_vars

\* ------------------------------------------------------------- properties
\* What is read off the log, judged by what the transport delivered and not by
\* what the client made of it.
IsReq(e, step) == e.ev = "req" /\ e.step = step
IsResp(e, step) == e.ev = "resp" /\ e.step = step
IsOutcome(e) == e.ev = "resp" \/ e.ev = "local"
DecodedSteps == {"lookup", "build", "delivery"}
Succeeded(e) ==
    IF e.ev = "local"
    THEN e.out = LocalOk
    ELSE /\ e.out.transport
         /\ e.out.status \in 200..299
         /\ (e.step \in DecodedSteps => e.out.decodes)
HasReq(t, step) == \E i \in DOMAIN log[t] : IsReq(log[t][i], step)
Last(q) == q[Len(q)]

\* The PUT of operation k was sent and answered with a success before
\* position `upto` of the thread's log.
PutSucceededBefore(t, k, upto) ==
    \E j \in 1..(upto - 2) :
        /\ IsReq(log[t][j], "put")
        /\ log[t][j].ref = operations[t][k].url
        /\ IsResp(log[t][j + 1], "put")
        /\ Succeeded(log[t][j + 1])

\* C1: the finalize request is in the log only after the PUT of every upload
\* operation of the creation response was answered with a success; once a PUT
\* has failed, the submission has no finalize request and the backend has not
\* marked its delivery file uploaded.
FinalizeOnlyAfterEveryPut ==
    \A t \in Threads :
        /\ \A i \in DOMAIN log[t] :
              IsReq(log[t][i], "finalize") =>
                  \A k \in DOMAIN operations[t] : PutSucceededBefore(t, k, i)
        /\ (\E i \in DOMAIN log[t] : IsResp(log[t][i], "put") /\ ~Succeeded(log[t][i])) =>
              /\ ~HasReq(t, "finalize")
              /\ pc[t] = "idle"
              /\ \A d \in uploaded : d # delivery_id[t]

FinalizeAfterTwoPuts ==
    \E t \in Threads :
        /\ HasReq(t, "finalize")
        /\ Len(operations[t]) = 2
        /\ delivery_id[t] \in uploaded

\* The steps of upload the order is about, as they stand in the log.
PipelineSteps == {"extract", "lookup", "build", "delivery", "put", "finalize"}
IsPipelineStep(e) == e.step \in PipelineSteps
Pipeline(t) == SelectSeq(log[t], IsPipelineStep)
Rank(step) ==
    CASE step = "extract" -> 1
      [] step = "lookup" -> 2
      [] step = "build" -> 3
      [] step = "delivery" -> 4
      [] step = "put" -> 5
      [] step = "finalize" -> 6
      [] OTHER -> 0
ComesNext(a, b) ==
    \/ Rank(b) = Rank(a) + 1
    \/ a = "put" /\ b = "put"
    \/ a = "delivery" /\ b = "finalize"
InOrder(q, nops) ==
    \A i \in DOMAIN q :
        /\ (i = 1) = (q[i].ev = "local")
        /\ i = 1 => q[i].step = "extract"
        /\ q[i].ev = "req" =>
              /\ i > 1
              /\ IsOutcome(q[i - 1])
              /\ Succeeded(q[i - 1])
              /\ ComesNext(q[i - 1].step, q[i].step)
        /\ q[i].ev = "resp" =>
              /\ i > 1
              /\ q[i - 1].ev = "req"
              /\ q[i - 1].step = q[i].step
        /\ IsReq(q[i], "finalize") =>
              Cardinality({j \in 1..(i - 1) : IsReq(q[j], "put")}) = nops

\* C2: within one call of upload the log reads extraction, lookup, build
\* creation, delivery-file creation, the chunk PUTs, finalize, in this order;
\* every request follows the successful outcome of the step before it, and
\* every response follows its own request.
StepsInDependencyOrder ==
    \A t \in Threads : InOrder(Pipeline(t), Len(operations[t]))

WholePipelineRan ==
    \E t \in Threads :
        /\ result[t] = "ok"
        /\ Len(operations[t]) = 2
        /\ Len(log[t]) > 0
        /\ IsResp(Last(log[t]), "finalize")

\* C3: within each thread's sequence of get_token calls, every call that
\* succeeded returned the same value, and the calls that succeeded were served
\* by exactly one signing.
GotToken(e) == e.ev = "local" /\ e.step = "get_token" /\ e.out = LocalOk
SequentialCallsShareOneToken ==
    \A t \in Threads :
        /\ \A i, j \in DOMAIN log[t] :
              GotToken(log[t][i]) /\ GotToken(log[t][j]) =>
                  /\ log[t][i].token = log[t][j].token
                  /\ log[t][i].token # NoToken
        /\ (\E i \in DOMAIN log[t] : GotToken(log[t][i])) => signCount = 1

TwoCallsInSequence ==
    \E t \in Threads :
        /\ Cardinality({i \in DOMAIN log[t] : GotToken(log[t][i])}) = 2
        /\ signCount = 1

\* C4: with threads calling get_token concurrently, at most one signing
\* succeeds, every caller of every thread is handed the identical value, which
\* is the cached one, and a cached token is never replaced.
OneTokenForAllThreads ==
    /\ [](/\ signCount <= 1
          /\ \A t \in Threads : \A i \in DOMAIN log[t] :
                GotToken(log[t][i]) => log[t][i].token = cache /\ cache # NoToken
          /\ \A t1, t2 \in Threads : (pc[t1] \in {"gt_check", "gt_sign", "gt_return"}
                                      /\ pc[t2] \in {"gt_check", "gt_sign", "gt_return"})
                                      => t1 = t2)
    /\ [][cache # NoToken => cache' = cache]_vars

CallerWaitsWhileTokenCached ==
    \E t1, t2 \in Threads :
        /\ t1 # t2
        /\ lock = t1
        /\ pc[t1] = "gt_return"
        /\ pc[t2] = "gt_lock"
        /\ \E i \in DOMAIN log[t2] : GotToken(log[t2][i])
        /\ signCount = 1

\* C5: an outcome that is a failure (extraction, signing, a read, no matching
\* candidate, a response that is no decodable success) is the last thing the
\* call did: upload has returned an error and nothing follows it in the log;
\* upload returned success only when every outcome in the log is a success, the
\* last of them the response to finalize, with every operation PUT before it.
FailureAbortsUpload ==
    \A t \in Threads :
        /\ \A i \in DOMAIN log[t] :
              (IsOutcome(log[t][i]) /\ ~Succeeded(log[t][i])) =>
                  /\ i = Len(log[t])
                  /\ pc[t] = "idle"
                  /\ result[t] \notin {"ok", "none"}
        /\ result[t] = "ok" =>
              /\ Len(log[t]) > 0
              /\ IsResp(Last(log[t]), "finalize")
              /\ \A i \in DOMAIN log[t] : IsOutcome(log[t][i]) => Succeeded(log[t][i])
              /\ \A step \in {"lookup", "build", "delivery", "finalize"} :
                    \E i \in DOMAIN log[t] : IsResp(log[t][i], step)
              /\ \A k \in DOMAIN operations[t] : PutSucceededBefore(t, k, Len(log[t]))

SecondPutFailed ==
    \E t \in Threads :
        /\ Len(log[t]) > 0
        /\ IsResp(Last(log[t]), "put")
        /\ Last(log[t]).out.status = 500
        /\ next_op[t] = 2
        /\ result[t] = "app store connect error"

\* The operation at position k asks for bytes the file does not have.
Overruns(t, k) == operations[t][k].offset + operations[t][k].length > Len(file[t])

\* C6: an operation whose range cannot be read in full is never PUT (with a
\* shortened body or otherwise), and once the loop has come to it no finalize
\* request is sent.
ShortReadAbortsUpload ==
    \A t \in Threads : \A k \in DOMAIN operations[t] :
        Overruns(t, k) =>
            /\ \A i \in DOMAIN log[t] :
                  ~(IsReq(log[t][i], "put") /\ log[t][i].ref = operations[t][k].url)
            /\ ~HasReq(t, "finalize")

IsIosPurple(a) == a.type = "iOS App" /\ a.software_type_enum = "Purple"
FindStep(t) == pc[t] = "find" /\ pc'[t] # "find"

\* C8: the selection step takes the first candidate, in list order, whose Type
\* is "iOS App" and whose SoftwareTypeEnum is "Purple"; the build creation
\* request references the AppleID of the candidate selected.
FirstIosPurpleSelected ==
    /\ [][\A t \in Threads :
            (FindStep(t) /\ \E k \in DOMAIN attributes[t] : IsIosPurple(attributes[t][k])) =>
                \E k \in DOMAIN attributes[t] :
                    /\ IsIosPurple(attributes[t][k])
                    /\ \A j \in 1..(k - 1) : ~IsIosPurple(attributes[t][j])
                    /\ apple_id'[t] = attributes[t][k].apple_id
                    /\ pc'[t] = "gt_lock"]_vars
    /\ [][\A t \in Threads : apple_id[t] # NoId => apple_id'[t] = apple_id[t]]_vars
    /\ [](\A t \in Threads : \A i \in DOMAIN log[t] :
            IsReq(log[t][i], "build") => log[t][i].ref = apple_id[t] /\ apple_id[t] # NoId)

BuildForSecondCandidate ==
    \E t \in Threads : \E i \in DOMAIN log[t] :
        IsReq(log[t][i], "build") /\ log[t][i].ref = 2

\* C9: when no candidate of the list (the empty list included) is an
\* "iOS App"/"Purple" one, upload returns "failed to find app", and a call that
\* returned it has sent no build, delivery-file, chunk or finalize request.
NoCandidateFailsUpload ==
    /\ [][\A t \in Threads :
            (FindStep(t) /\ \A k \in DOMAIN attributes[t] : ~IsIosPurple(attributes[t][k])) =>
                /\ pc'[t] = "idle"
                /\ result'[t] = "failed to find app"]_vars
    /\ [](\A t \in Threads :
            result[t] = "failed to find app" =>
                /\ pc[t] = "idle"
                /\ \A step \in {"build", "delivery", "put", "finalize"} : ~HasReq(t, step))

AppNotFound ==
    \E t \in Threads :
        /\ result[t] = "failed to find app"
        /\ HasReq(t, "lookup")

\* The operations cut [0, size) into ranges: each lies in the file and every
\* byte position is in exactly one of them.
IsPartition(ops, size) ==
    /\ \A k \in DOMAIN ops : ops[k].offset + ops[k].length <= size
    /\ \A p \in 0..(size - 1) :
          Cardinality({k \in DOMAIN ops :
                         ops[k].offset <= p /\ p < ops[k].offset + ops[k].length}) = 1

\* C10: when the operations partition the file, the body of the PUT to an
\* operation's URL is the file's bytes [offset, offset + length); once every
\* operation is PUT, every byte of the file has been sent exactly once.
PutBodiesAreTheRanges ==
    \A t \in Threads :
        IsPartition(operations[t], Len(file[t])) =>
            /\ \A i \in DOMAIN log[t] :
                  IsReq(log[t][i], "put") =>
                      LET op == operations[t][log[t][i].ref] IN
                      /\ Len(log[t][i].body) = op.length
                      /\ \A b \in 1..op.length :
                            log[t][i].body[b] = file[t][op.offset + b]
            /\ HasReq(t, "finalize") =>
                  \A p \in 1..Len(file[t]) :
                      Cardinality({i \in DOMAIN log[t] :
                          /\ IsReq(log[t][i], "put")
                          /\ operations[t][log[t][i].ref].offset < p
                          /\ p <= operations[t][log[t][i].ref].offset + Len(log[t][i].body)
                          /\ log[t][i].body[p - operations[t][log[t][i].ref].offset]
                                = file[t][p]}) = 1

WholeFileSentInTwoRanges ==
    \E t \in Threads :
        /\ HasReq(t, "finalize")
        /\ Len(file[t]) = 2
        /\ Len(operations[t]) = 2
        /\ IsPartition(operations[t], 2)
        /\ operations[t][1].offset = 1
        /\ operations[t][1].length = 1

\* The PUT requests of a thread's log, in the order they were sent.
IsPutReq(e) == IsReq(e, "put")
PutsSent(t) == SelectSeq(log[t], IsPutReq)

\* C11: the k-th PUT sent is the PUT of the k-th operation of the creation
\* response; a PUT follows the creation response or the successful response
\* to the PUT before it, so that at most one PUT is unanswered, and only as
\* the last event of the log.
PutsOneAtATimeInListOrder ==
    \A t \in Threads :
        /\ \A k \in DOMAIN PutsSent(t) :
              /\ k <= Len(operations[t])
              /\ PutsSent(t)[k].ref = operations[t][k].url
        /\ \A i \in DOMAIN log[t] :
              IsReq(log[t][i], "put") =>
                  /\ i > 1
                  /\ \/ IsResp(log[t][i - 1], "delivery")
                     \/ IsResp(log[t][i - 1], "put")
                  /\ Succeeded(log[t][i - 1])
                  /\ i < Len(log[t]) => IsResp(log[t][i + 1], "put")

SecondPutInFlight ==
    \E t \in Threads :
        /\ pc[t] = "put_wait"
        /\ Len(PutsSent(t)) = 2
        /\ operations[t][1].offset > operations[t][2].offset

\* C12: within one call of upload the lookup, build, delivery-file and finalize
\* requests are each in the log at most once, and so is the PUT of each
\* operation, whatever the outcomes were.
SentTimes(t, step) == Cardinality({i \in DOMAIN log[t] : IsReq(log[t][i], step)})
NoRequestRepeated ==
    \A t \in Threads :
        /\ \A step \in {"lookup", "build", "delivery", "finalize"} : SentTimes(t, step) <= 1
        /\ \A k \in DOMAIN operations[t] :
              Cardinality({i \in DOMAIN log[t] :
                             IsReq(log[t][i], "put")
                             /\ log[t][i].ref = operations[t][k].url}) <= 1
        /\ Len(PutsSent(t)) <= Len(operations[t])

GaveUpAfterFailedPut ==
    \E t \in Threads :
        /\ pc[t] = "idle"
        /\ result[t] = "transport error"
        /\ Len(log[t]) > 0
        /\ IsResp(Last(log[t]), "put")
        /\ Len(PutsSent(t)) = 1
        /\ Len(operations[t]) = 2
\* The get_token calls that returned a token, over all threads.
TokensReturned == {e \in UNION {{log[t][i] : i \in DOMAIN log[t]} : t \in Threads} : GotToken(e)}

\* C13: once a token has been minted, every get_token call returns that same
\* value however much time has passed, also after the 300 seconds the token is
\* valid for; the cached token is never cleared and never minted again.
TokenOutlivesItsValidity ==
    /\ signCount <= 1
    /\ signCount = 1 => cache # NoToken /\ expiry <= MaxTicks * TokenValidity + TokenValidity
    /\ \A e \in TokensReturned : cache # NoToken /\ e.token = cache
\* A call returned the token within its validity and another after it had ended.
ReturnedAfterExpiry ==
    /\ \E e \in TokensReturned : e.ref < expiry
    /\ \E e \in TokensReturned : e.ref > expiry

\* A request of thread t is in flight: sent and not answered yet.
InFlight(t) == Len(log[t]) > 0 /\ Last(log[t]).ev = "req"
\* Thread t is inside get_token.
InGetToken(t) == pc[t] \in {"gt_lock", "gt_check", "gt_sign", "gt_return"}

\* C14: in every interleaving of concurrent submissions on one client, the token
\* lock is held only by a thread that is inside get_token and never by a thread
\* that has a request in flight, so submissions wait for each other only there.
LockHeldOnlyInsideGetToken ==
    /\ lock # NoThread => InGetToken(lock) /\ ~InFlight(lock)
    /\ \A t \in Threads : InFlight(t) => lock # t /\ ~InGetToken(t)
\* Two submissions have requests in flight at the same time.
TwoRequestsInFlight ==
    \E t, u \in Threads : t # u /\ InFlight(t) /\ InFlight(u) /\ lock = NoThread

\* Thread t's request of the step was answered with a success before position i.
AnsweredBefore(t, step, i) ==
    \E j \in 1..(i - 1) : IsResp(log[t][j], step) /\ Succeeded(log[t][j])

\* C15: in every interleaving of concurrent submissions, a submission's
\* delivery-file request names the build id the backend returned to that same
\* submission, and its finalize request names the delivery file returned to it;
\* neither ever names an identifier returned to another submission.
IdentifiersStayWithTheirSubmission ==
    \A t \in Threads : \A i \in DOMAIN log[t] :
        /\ IsReq(log[t][i], "delivery") =>
              /\ AnsweredBefore(t, "build", i)
              /\ log[t][i].ref = BackendId(t)
              /\ \A u \in Threads \ {t} : log[t][i].ref # BackendId(u)
        /\ IsReq(log[t][i], "finalize") =>
              /\ AnsweredBefore(t, "delivery", i)
              /\ log[t][i].ref = BackendId(t)
              /\ \A u \in Threads \ {t} : log[t][i].ref # BackendId(u)
\* Two submissions ran side by side up to their finalize requests.
TwoSubmissionsFinalize ==
    \E t, u \in Threads :
        /\ t # u
        /\ HasReq(t, "finalize") /\ HasReq(u, "finalize")
        /\ InFlight(t) /\ InFlight(u)

\* The package thread t's upload was given.
Submitted(t) == log[t][1].body[1]
HasSubmitted(t) == Len(log[t]) > 0 /\ log[t][1].step = "extract"
\* The Info.plist has no string under the key.
LacksString(pkg, key) == pkg.info[key] = Absent \/ pkg.info[key] = NotAString

\* C16: when the Info.plist of the package has no string under one of
\* CFBundleIdentifier, CFBundleVersion and CFBundleShortVersionString, the
\* upload ends with the extraction error and without AppData: it asks for no
\* token, none is minted, and nothing is sent.
IncompletePlistStopsUpload ==
    \A t \in Threads :
        (HasSubmitted(t) /\ \E key \in PlistKeys : LacksString(Submitted(t), key)) =>
            /\ Len(log[t]) = 1
            /\ log[t][1].out = LocalErr
            /\ pc[t] = "idle"
            /\ result[t] = "invalid Info.plist"
            /\ app_data[t] = NoAppData
            /\ token[t] = NoToken
            /\ signCount = 0 /\ cache = NoToken
\* An upload of a package whose CFBundleVersion is not a string, the other two
\* keys being fine, has returned.
VersionNotAString ==
    \E t \in Threads :
        /\ HasSubmitted(t)
        /\ Submitted(t).readable
        /\ Submitted(t).info["CFBundleVersion"] = NotAString
        /\ ~LacksString(Submitted(t), "CFBundleIdentifier")
        /\ ~LacksString(Submitted(t), "CFBundleShortVersionString")
        /\ result[t] = "invalid Info.plist"

SessionHeaders == {"x-session-id", "x-session-digest"}
LookupsSent(t) == {i \in DOMAIN log[t] : IsReq(log[t][i], "lookup")}

EncodesAKey(text) == \E der \in DerSamples : text = Base64Encode(der)
\* Nothing was ever done with the client.
NeverUsed ==
    /\ signCount = 0 /\ cache = NoToken
    /\ \A t \in Threads : log[t] = <<>> /\ token[t] = NoToken /\ pc[t] = "idle"

\* C18: a PEM file whose tag is not "PRIVATE KEY" gives no key, a key whose
\* private_key is not base64 gives no client, and where no client was built no
\* token is minted and no request is sent; a client that was built holds a key
\* that decodes, and one loaded from a PEM file holds that file's contents.
NoClientFromMalformedKey ==
    /\ (pem # NoPem /\ pem.tag # "PRIVATE KEY") => ~(api_key.present /\ api_key.origin = "pem")
    /\ (api_key.present /\ ~EncodesAKey(api_key.private_key)) => client # "built"
    /\ client # "built" => NeverUsed
    /\ client = "built" =>
          /\ api_key.present /\ EncodesAKey(api_key.private_key)
          /\ api_key.origin = "pem" =>
                pem.tag = "PRIVATE KEY" /\ api_key.private_key = Base64Encode(pem.contents)
\* A PEM file tagged otherwise was turned down, and so was the key of a JSON
\* file that is not base64.
MalformedKeyTurnedDown ==
    /\ pem.readable /\ pem.parses /\ pem.tag = "EC PRIVATE KEY"
    /\ api_key.present /\ api_key.origin = "json" /\ NotBase64 \in {api_key.private_key[i] : i \in DOMAIN api_key.private_key}
    /\ client = "failed"

\* The transport delivered a response and its status is of the 2xx class.
Delivered2xx(out) == out.transport /\ out.status \in 200..299
\* send_request gave the response at position i of thread t's log back to its
\* caller: the caller went on, or was done with the last step.
GaveResponse(t, i) ==
    \/ i < Len(log[t])
    \/ pc[t] # "idle"
    \/ log[t][i].step = "finalize" /\ result[t] = "ok"
\* send_request gave its caller an error, which ended the submission.
GaveError(t, i) ==
    /\ i = Len(log[t])
    /\ pc[t] = "idle"
    /\ result[t] = IF log[t][i].out.transport THEN "app store connect error"
                                              ELSE "transport error"

\* C19: send_request gives its caller the response exactly when the transport
\* delivered one with a 2xx status; for any other status, and when the
\* transport failed, it gives an error and never a response.
ResponseOnlyFor2xx ==
    \A t \in Threads : \A i \in DOMAIN log[t] :
        log[t][i].ev = "resp" =>
            /\ Delivered2xx(log[t][i].out) => GaveResponse(t, i) /\ ~GaveError(t, i)
            /\ ~Delivered2xx(log[t][i].out) => GaveError(t, i) /\ ~GaveResponse(t, i)
\* A request answered 299 went through and a later one answered 300 did not.
Status299ThenStatus300 ==
    \E t \in Threads : \E i \in DOMAIN log[t] :
        /\ i < Len(log[t])
        /\ log[t][i].ev = "resp" /\ log[t][i].out.status = 299
        /\ Last(log[t]).ev = "resp" /\ Last(log[t]).out.status = 300
        /\ result[t] = "app store connect error"

\* The get_token calls of thread t that returned before position i of its log.
TokenCallsBefore(t, i) == {j \in 1..(i - 1) : GotToken(log[t][j])}
\* The get_token call of the operation a step belongs to: the first for the
\* lookup, the second for create_build, the third for create_upload.
TokenCallOf(step) ==
    CASE step = "lookup" -> 1
      [] step = "build" -> 2
      [] OTHER -> 3
BearerSteps == {"lookup", "build", "delivery", "finalize"}
BearerRequests ==
    {e \in UNION {{log[t][i] : i \in DOMAIN log[t]} : t \in Threads} :
        e.ev = "req" /\ e.step \in BearerSteps}

\* C20: every lookup, build, delivery-file and finalize request carries as
\* bearer token the value the get_token call of its own operation returned
\* before it; all such requests on the client carry one and the same value; a
\* chunk PUT carries no bearer token.
BearerFromOwnGetToken ==
    /\ \A t \in Threads : \A i \in DOMAIN log[t] :
          /\ (log[t][i].ev = "req" /\ log[t][i].step \in BearerSteps) =>
                /\ log[t][i].token # NoToken
                /\ "Authorization" \in log[t][i].headers
                /\ Cardinality(TokenCallsBefore(t, i)) = TokenCallOf(log[t][i].step)
                /\ \A j \in TokenCallsBefore(t, i) : log[t][j].token = log[t][i].token
          /\ IsReq(log[t][i], "put") =>
                /\ log[t][i].token = NoToken
                /\ "Authorization" \notin log[t][i].headers
    /\ \A e, f \in BearerRequests : e.token = f.token
\* One submission has a chunk in flight while another has sent its finalize
\* request, one token having been minted for both.
ChunkInFlightBesideFinalize ==
    \E t, u \in Threads :
        /\ t # u
        /\ InFlight(t) /\ IsReq(Last(log[t]), "put")
        /\ HasReq(u, "finalize")
        /\ signCount = 1

\* get_token ended with the signing error.
SigningFailed(e) == e.ev = "local" /\ e.step = "get_token" /\ e.out = LocalErr
\* Thread t's get_token call returns the signing error in this step.
ReturnsSigningError(t) == pc[t] = "gt_sign" /\ pc'[t] = "idle"

\* C21: a get_token call whose signing fails returns the error, leaves the
\* cache empty as it was, stores no token and leaves the lock free, so that the
\* next call finds the cache empty and signs again; the cache holds a token
\* only after a signing that succeeded.
SigningErrorLeavesCacheEmpty ==
    /\ [][\A t \in Threads : ReturnsSigningError(t) =>
              /\ cache = NoToken /\ cache' = NoToken
              /\ signCount' = signCount
              /\ lock = t /\ lock' = NoThread
              /\ result'[t] = "signing failed"
              /\ token'[t] = token[t]
              /\ SigningFailed(Last(log'[t]))]_vars
    /\ [](cache = NoToken <=> signCount = 0)
    /\ [](\A t \in Threads : \A i \in DOMAIN log[t] :
              SigningFailed(log[t][i]) => log[t][i].token = NoToken)
\* A call failed to sign and a later call of the same thread signed the token.
SignedAfterSigningError ==
    \E t \in Threads : \E i, j \in DOMAIN log[t] :
        /\ i < j
        /\ SigningFailed(log[t][i])
        /\ GotToken(log[t][j])
        /\ signCount = 1 /\ cache = log[t][j].token

\* C22: get_token never deadlocks: under fair scheduling every call of every
\* thread returns, with the token or with the signing error, however the calls
\* of the threads interleave; and whenever the lock is held, its holder is
\* inside get_token, past the locking, where its next step is always possible.
EveryGetTokenCallReturns ==
    /\ \A t \in Threads : InGetToken(t) ~> (pc[t] = "idle" /\ result[t] \in {"ok", "signing failed"})
    /\ [](lock # NoThread => pc[lock] \in {"gt_check", "gt_sign", "gt_return"})
\* A thread waits for the lock while the thread that holds it is signing.
WaitsForSigningThread ==
    \E t, u \in Threads :
        /\ t # u
        /\ pc[t] = "gt_lock"
        /\ lock = u /\ pc[u] = "gt_sign"

\* Thread t's delivery file was created and came without upload operations.
CreatedWithoutOperations(t, i) ==
    /\ IsResp(log[t][i], "delivery")
    /\ Succeeded(log[t][i])
    /\ operations[t] = <<>>

\* C23: when the delivery file is created with an empty list of upload
\* operations, create_upload goes on: it reads nothing of the file and sends no
\* PUT, its next request is the finalize request for that delivery file, and
\* when that is answered with a success the delivery file is marked uploaded
\* and the upload returns Ok, whatever the size of the file.
EmptyPlanFinalizesAtOnce ==
    \A t \in Threads : \A i \in DOMAIN log[t] :
        CreatedWithoutOperations(t, i) =>
            /\ ~HasReq(t, "put")
            /\ \A j \in DOMAIN log[t] : log[t][j].step # "read_range"
            /\ i = Len(log[t]) => pc[t] = "loop" /\ delivery_id[t] # NoId
            /\ i < Len(log[t]) =>
                  /\ IsReq(log[t][i + 1], "finalize")
                  /\ log[t][i + 1].ref = delivery_id[t]
            /\ i + 2 <= Len(log[t]) =>
                  /\ IsResp(log[t][i + 2], "finalize")
                  /\ i + 2 = Len(log[t])
                  /\ Succeeded(log[t][i + 2]) =>
                        delivery_id[t] \in uploaded /\ result[t] = "ok"
\* A file of the largest size was marked uploaded without a byte of it sent.
UploadedWithoutAByte ==
    \E t \in Threads : \E i \in DOMAIN log[t] :
        /\ CreatedWithoutOperations(t, i)
        /\ Len(file[t]) = MaxFileSize
        /\ delivery_id[t] \in uploaded
        /\ result[t] = "ok"

====
